---- MODULE Spec2Model ----
(***************************************************************************)
(* Model of the configuration manager of deriv-risefall-pro                *)
(* (src/src/config_manager.py): the configuration records, ConfigValidator,*)
(* PresetManager and ConfigManager.load / save over a small file system,   *)
(* and of the Telegram notifier (src/src/telegram_notifier.py).            *)
(*                                                                         *)
(* Numbers: every float of the program (stakes, multipliers, profit and    *)
(* loss limits) is represented as an integer count of thousandths, so      *)
(* 0.01 is 10, 1.1 is 1100 and 10000 is 10000000.  Integer fields          *)
(* (contract_duration, max_steps, ...) are plain integers.                 *)
(***************************************************************************)
EXTENDS Integers, Sequences, FiniteSets, TLC

VARIABLES config, config_path, fs, saved, last, env, notifier, posts,
          default_notifier, heap, held, ref

vars == <<config, config_path, fs, saved, last, env, notifier, posts,
          default_notifier, heap, held, ref>>

\* the state of the Telegram notifier (telegram_notifier.py): the environment
\* variables, the TelegramNotifier instance, the HTTP POSTs it has issued, and
\* the module-level _default_notifier
tgVars == <<env, notifier, posts, default_notifier>>

\* object identity (config_manager.py:250-271, 337-383): the BotConfig objects
\* that exist, by identity, the identity of the one the manager holds, and a
\* reference a caller took earlier
objVars == <<heap, held, ref>>

None == "None"

(***************************************************************************)
(* Data model (config_manager.py:22-82)                                    *)
(***************************************************************************)

\* class RiskLevel(Enum): member name |-> value
RiskLevel ==
    [ CONSERVATIVE |-> "conservative",
      MODERATE     |-> "moderate",
      AGGRESSIVE   |-> "aggressive",
      CUSTOM       |-> "custom" ]

RiskLevelMembers == DOMAIN RiskLevel

TradingConfig ==
    [ base_stake        |-> 1000,
      contract_type     |-> "rise_fall",
      contract_duration |-> 1,
      duration_unit     |-> "ticks",
      trading_asset     |-> "R_100",
      trade_direction   |-> "random" ]

MartingaleConfig ==
    [ enabled      |-> TRUE,
      multiplier   |-> 2000,
      max_steps    |-> 5,
      reset_on_win |-> TRUE ]

RiskManagementConfig ==
    [ take_profit            |-> 50000,
      stop_loss              |-> 25000,
      max_consecutive_losses |-> 5,
      min_balance_threshold  |-> 10000,
      max_daily_trades       |-> 0 ]

TelegramConfig ==
    [ enabled               |-> FALSE,
      bot_token             |-> "YOUR_BOT_TOKEN",
      chat_id               |-> "YOUR_CHAT_ID",
      notify_on_win         |-> TRUE,
      notify_on_loss        |-> TRUE,
      notify_on_start       |-> TRUE,
      notify_on_stop        |-> TRUE,
      notify_on_take_profit |-> TRUE,
      notify_on_stop_loss   |-> TRUE,
      send_session_summary  |-> TRUE ]

BotConfig ==
    [ trading         |-> TradingConfig,
      martingale      |-> MartingaleConfig,
      risk_management |-> RiskManagementConfig,
      telegram        |-> TelegramConfig,
      risk_level      |-> "MODERATE" ]

Sections == {"trading", "martingale", "risk_management", "telegram"}

(***************************************************************************)
(* str.lower() and the `in` test on strings, on the strings of the model   *)
(***************************************************************************)

lower(s) ==
    CASE s = "TICKS"   -> "ticks"
      [] s = "Seconds" -> "seconds"
      [] s = "M"       -> "m"
      [] s = "CALL"    -> "call"
      [] s = "Rise"    -> "rise"
      [] OTHER         -> s

\* ":" in token, for the tokens of the model
HasColon(s) == s \in {"123:ABC", "1:x"}

(***************************************************************************)
(* ConfigValidator (config_manager.py:85-209)                              *)
(* A violation message is a record: the field name the text starts with,   *)
(* the rest of the text, and the offending value the text quotes.          *)
(***************************************************************************)

Msg(field, text, got) == [field |-> field, text |-> text, got |-> got]

validate_positive(value, field_name) ==
    IF value <= 0
    THEN <<FALSE, Msg(field_name, "must be positive", ToString(value))>>
    ELSE <<TRUE, Msg("", "", "")>>

\* validate_range with the lower bound excluded
validate_range_open_low(value, min_val, max_val, field_name) ==
    IF value <= min_val \/ value > max_val
    THEN <<FALSE, Msg(field_name,
                      "must be between " \o ToString(min_val) \o " and " \o ToString(max_val),
                      ToString(value))>>
    ELSE <<TRUE, Msg("", "", "")>>

\* validate_range with the upper bound excluded
validate_range_open_high(value, min_val, max_val, field_name) ==
    IF value < min_val \/ value >= max_val
    THEN <<FALSE, Msg(field_name,
                      "must be between " \o ToString(min_val) \o " and " \o ToString(max_val),
                      ToString(value))>>
    ELSE <<TRUE, Msg("", "", "")>>

validate_range(value, min_val, max_val, field_name) ==
    IF value < min_val \/ value > max_val
    THEN <<FALSE, Msg(field_name,
                      "must be between " \o ToString(min_val) \o " and " \o ToString(max_val),
                      ToString(value))>>
    ELSE <<TRUE, Msg("", "", "")>>

\* errors.append(msg) under `if not valid`
AppendIfInvalid(errors, res) == IF ~res[1] THEN Append(errors, res[2]) ELSE errors

AppendIf(errors, cond, msg) == IF cond THEN Append(errors, msg) ELSE errors

StakeMin == 10
StakeMax == 10000000
valid_units == {"ticks", "seconds", "minutes", "t", "s", "m"}
valid_directions == {"random", "rise", "fall", "call", "put"}

\* validate_trading_config with the stake checks under `if config.base_stake:`
validate_trading_config_truthy_stake(c) ==
    LET e0 == <<>>
        e1 == AppendIfInvalid(e0, validate_positive(c.base_stake, "Base stake"))
        e2 == AppendIfInvalid(e1, validate_range(c.base_stake, 10, 10000000, "Base stake"))
        e3 == AppendIf(IF c.base_stake # 0 THEN e2 ELSE e0, c.contract_duration < 1,
                       Msg("Contract duration", "must be at least 1", ToString(c.contract_duration)))
        e4 == AppendIf(e3, lower(c.duration_unit) \notin {"ticks", "seconds", "minutes", "t", "s", "m"},
                       Msg("Duration unit", "must be one of valid_units", c.duration_unit))
        e5 == AppendIf(e4, lower(c.trade_direction) \notin {"random", "rise", "fall", "call", "put"},
                       Msg("Trade direction", "must be one of valid_directions", ""))
    IN  e5

validate_trading_config(c) ==
    LET e0 == <<>>
        e1 == AppendIfInvalid(e0, validate_positive(c.base_stake, "Base stake"))
        e2 == AppendIfInvalid(e1, validate_range(c.base_stake, StakeMin, StakeMax, "Base stake"))
        e3 == AppendIf(e2, c.contract_duration < 1,
                       Msg("Contract duration", "must be at least 1", ToString(c.contract_duration)))
        e4 == AppendIf(e3, lower(c.duration_unit) \notin valid_units,
                       Msg("Duration unit", "must be one of valid_units", c.duration_unit))
        e5 == AppendIf(e4, lower(c.trade_direction) \notin valid_directions,
                       Msg("Trade direction", "must be one of valid_directions", ""))
    IN  e5

MultiplierMin == 1100
MultiplierMax == 10000
StepsMin == 1
StepsMax == 20

\* validate_martingale_config without the `if config.enabled` guard
validate_martingale_config_always(c) ==
    LET e1 == AppendIfInvalid(<<>>, validate_range(c.multiplier, 1100, 10000, "Multiplier"))
    IN  AppendIf(e1, c.max_steps < 1 \/ c.max_steps > 20,
                 Msg("Max martingale steps", "must be between 1 and 20", ToString(c.max_steps)))

validate_martingale_config(c) ==
    LET e0 == <<>>
        e1 == AppendIfInvalid(e0, validate_range(c.multiplier, MultiplierMin, MultiplierMax, "Multiplier"))
        e2 == AppendIf(e1, c.max_steps < StepsMin \/ c.max_steps > StepsMax,
                       Msg("Max martingale steps", "must be between 1 and 20", ToString(c.max_steps)))
    IN  IF c.enabled THEN e2 ELSE e0

validate_risk_config(c) ==
    LET e0 == <<>>
        e1 == AppendIfInvalid(e0, validate_positive(c.take_profit, "Take profit"))
        e2 == AppendIfInvalid(e1, validate_positive(c.stop_loss, "Stop loss"))
        e3 == AppendIf(e2, c.max_consecutive_losses < 1,
                       Msg("Max consecutive losses", "must be at least 1", ""))
        e4 == AppendIfInvalid(e3, validate_positive(c.min_balance_threshold, "Min balance threshold"))
        e5 == AppendIf(e4, c.max_daily_trades < 0,
                       Msg("Max daily trades", "cannot be negative", ""))
    IN  e5

\* validate_telegram_config with the format check as an `elif` of the token check
validate_telegram_config_elif(c) ==
    LET unset == c.bot_token = "" \/ c.bot_token = "YOUR_BOT_TOKEN"
        e1 == AppendIf(<<>>, unset, Msg("Telegram bot token", "is not configured", ""))
        e2 == AppendIf(e1, c.chat_id = "" \/ c.chat_id = "YOUR_CHAT_ID",
                       Msg("Telegram chat ID", "is not configured", ""))
        e3 == AppendIf(e2, ~unset /\ ~HasColon(c.bot_token),
                       Msg("Telegram bot token", "format appears invalid (should contain ':')", ""))
    IN  IF c.enabled THEN e3 ELSE <<>>

validate_telegram_config(c) ==
    LET e0 == <<>>
        e1 == AppendIf(e0, c.bot_token = "" \/ c.bot_token = "YOUR_BOT_TOKEN",
                       Msg("Telegram bot token", "is not configured", ""))
        e2 == AppendIf(e1, c.chat_id = "" \/ c.chat_id = "YOUR_CHAT_ID",
                       Msg("Telegram chat ID", "is not configured", ""))
        e3 == AppendIf(e2, c.bot_token # "" /\ ~HasColon(c.bot_token),
                       Msg("Telegram bot token", "format appears invalid (should contain ':')", ""))
    IN  IF c.enabled THEN e3 ELSE e0

\* validate_all with the risk validator run before the martingale validator
validate_all_reordered(c) ==
    LET e4 == validate_trading_config(c.trading) \o validate_risk_config(c.risk_management)
              \o validate_martingale_config(c.martingale) \o validate_telegram_config(c.telegram)
    IN  <<Len(e4) = 0, e4>>

\* errors.extend(...) four times, then (len(errors) == 0, errors)
validate_all(c) ==
    LET e0 == <<>>
        e1 == e0 \o validate_trading_config(c.trading)
        e2 == e1 \o validate_martingale_config(c.martingale)
        e3 == e2 \o validate_risk_config(c.risk_management)
        e4 == e3 \o validate_telegram_config(c.telegram)
    IN  <<Len(e4) = 0, e4>>

(***************************************************************************)
(* PresetManager (config_manager.py:212-271)                               *)
(***************************************************************************)

PRESETS ==
    [ CONSERVATIVE |->
        [ trading         |-> [base_stake |-> 500],
          martingale      |-> [multiplier |-> 1500, max_steps |-> 3],
          risk_management |-> [take_profit |-> 25000, stop_loss |-> 15000,
                               max_consecutive_losses |-> 3] ],
      MODERATE |->
        [ trading         |-> [base_stake |-> 1000],
          martingale      |-> [multiplier |-> 2000, max_steps |-> 5],
          risk_management |-> [take_profit |-> 50000, stop_loss |-> 25000,
                               max_consecutive_losses |-> 5] ],
      AGGRESSIVE |->
        [ trading         |-> [base_stake |-> 2000],
          martingale      |-> [multiplier |-> 2500, max_steps |-> 7],
          risk_management |-> [take_profit |-> 100000, stop_loss |-> 50000,
                               max_consecutive_losses |-> 7] ] ]

\* get_preset without the fallback: cls.PRESETS.get(level, {})
get_preset_no_fallback(level) ==
    IF level \in DOMAIN PRESETS THEN PRESETS[level] ELSE [k \in {} |-> <<>>]

\* cls.PRESETS.get(level, cls.PRESETS[RiskLevel.MODERATE])
get_preset(level) ==
    IF level \in DOMAIN PRESETS THEN PRESETS[level] ELSE PRESETS["MODERATE"]

\* for key, value in part.items(): setattr(rec, key, value)
SetAttrs(rec, part) ==
    [f \in DOMAIN rec |-> IF f \in DOMAIN part THEN part[f] ELSE rec[f]]

\* apply_preset without the martingale loop
apply_preset_skip_martingale(c, level) ==
    LET preset == get_preset(level)
        c1 == [c EXCEPT !.trading = SetAttrs(@, preset.trading)]
        c3 == [c1 EXCEPT !.risk_management = SetAttrs(@, preset.risk_management)]
    IN  [c3 EXCEPT !.risk_level = level]

\* apply_preset without the risk_management loop
apply_preset_skip_risk(c, level) ==
    LET preset == get_preset(level)
        c1 == [c EXCEPT !.trading = SetAttrs(@, preset.trading)]
        c2 == [c1 EXCEPT !.martingale = SetAttrs(@, preset.martingale)]
    IN  [c2 EXCEPT !.risk_level = level]

\* apply_preset building new sub-records from the preset instead of setting
\* attributes: config.trading = TradingConfig(**preset["trading"]), ...
apply_preset_rebuild(c, level) ==
    LET preset == get_preset(level)
    IN  [c EXCEPT !.trading = SetAttrs(TradingConfig, preset.trading),
                  !.martingale = SetAttrs(MartingaleConfig, preset.martingale),
                  !.risk_management = SetAttrs(RiskManagementConfig, preset.risk_management),
                  !.risk_level = level]

apply_preset(c, level) ==
    LET preset == get_preset(level)
        c1 == IF "trading" \in DOMAIN preset
              THEN [c EXCEPT !.trading = SetAttrs(@, preset.trading)] ELSE c
        c2 == IF "martingale" \in DOMAIN preset
              THEN [c1 EXCEPT !.martingale = SetAttrs(@, preset.martingale)] ELSE c1
        c3 == IF "risk_management" \in DOMAIN preset
              THEN [c2 EXCEPT !.risk_management = SetAttrs(@, preset.risk_management)] ELSE c2
    IN  [c3 EXCEPT !.risk_level = level]

\* config_manager.py:513-516
create_config_from_preset(level) == apply_preset(BotConfig, level)

(***************************************************************************)
(* Arithmetic of calculate_max_loss / get_recommended_balance               *)
(* (config_manager.py:313-331).  A computed amount is a reduced fraction    *)
(* <<numerator, denominator>> of thousandths, so that the products of the   *)
(* loop (1.5 * 1.5 * ...) are exact; the rounding of binary floating point  *)
(* is not represented.                                                      *)
(***************************************************************************)
Abs(x) == IF x < 0 THEN -x ELSE x

RECURSIVE Gcd(_, _)
Gcd(a, b) == IF b = 0 THEN a ELSE Gcd(b, a % b)

\* the fraction n/d (d > 0) in lowest terms
Norm(n, d) ==
    IF n = 0 THEN <<0, 1>>
    ELSE LET g == Gcd(Abs(n), d) IN <<n \div g, d \div g>>

\* the number whose value is x thousandths
Number(x) == <<x, 1>>

\* a + b
Add(a, b) ==
    LET g == Gcd(a[2], b[2])
    IN  Norm(a[1] * (b[2] \div g) + b[1] * (a[2] \div g), (a[2] \div g) * b[2])

\* the product of two fractions in lowest terms
RatMul(a, b) ==
    IF a[1] = 0 \/ b[1] = 0 THEN <<0, 1>>
    ELSE LET g1 == Gcd(Abs(a[1]), b[2])
             g2 == Gcd(Abs(b[1]), a[2])
         IN  <<(a[1] \div g1) * (b[1] \div g2), (a[2] \div g2) * (b[2] \div g1)>>

\* amount * factor, the factor being a plain number of thousandths
Times(amount, factor) == RatMul(amount, Norm(factor, 1000))

\* the loop with stake *= multiplier ahead of total += stake
RECURSIVE MaxLossLoopMultiplyFirst(_, _, _, _)
MaxLossLoopMultiplyFirst(steps, total, stake, multiplier) ==
    IF steps <= 0 THEN total
    ELSE MaxLossLoopMultiplyFirst(steps - 1, Add(total, Times(stake, multiplier)),
                                  Times(stake, multiplier), multiplier)

\* for _ in range(steps): total += stake; stake *= multiplier
RECURSIVE MaxLossLoop(_, _, _, _)
MaxLossLoop(steps, total, stake, multiplier) ==
    IF steps <= 0 THEN total
    ELSE MaxLossLoop(steps - 1, Add(total, stake), Times(stake, multiplier), multiplier)

\* calculate_max_loss with the two statements of the loop body swapped
calculate_max_loss_multiply_first(c) ==
    IF ~c.martingale.enabled THEN Number(c.trading.base_stake)
    ELSE MaxLossLoopMultiplyFirst(c.martingale.max_steps, Number(0),
                                  Number(c.trading.base_stake), c.martingale.multiplier)

calculate_max_loss(c) ==
    IF ~c.martingale.enabled THEN Number(c.trading.base_stake)
    ELSE MaxLossLoop(c.martingale.max_steps, Number(0),
                     Number(c.trading.base_stake), c.martingale.multiplier)

\* safety_factor: float = 2.0
DefaultSafetyFactor == 2000

\* get_recommended_balance ignoring the safety_factor it is given
get_recommended_balance_fixed_factor(c, args) ==
    Times(calculate_max_loss(c), DefaultSafetyFactor)

\* args is the list of positional arguments after config: <<>> or <<safety_factor>>
get_recommended_balance(c, args) ==
    LET safety_factor == IF Len(args) = 0 THEN DefaultSafetyFactor ELSE args[1]
        max_loss == calculate_max_loss(c)
    IN  Times(max_loss, safety_factor)

(***************************************************************************)
(* JSON documents and files                                                *)
(*                                                                         *)
(* A file is [kind, doc].  kind is what open()/json.load() meet:           *)
(*   "missing"      os.path.exists(path) is false                          *)
(*   "inaccessible" the path exists but open() raises OSError (IOError):   *)
(*                  a directory, or a file without permission              *)
(*   "undecodable"  bytes that are not text in the default encoding:       *)
(*                  f.read() raises UnicodeDecodeError (a ValueError)      *)
(*   "malformed"    text that is not JSON: json.JSONDecodeError            *)
(*   "json"         well-formed JSON, whose parsed value is doc            *)
(* A parsed value is [type, obj]: type "object" with members obj (a        *)
(* function on its keys), "array" (a list), or "number" (a scalar).        *)
(***************************************************************************)

NoDoc == [type |-> "none", obj |-> <<>>]

File(kind, doc) == [kind |-> kind, doc |-> doc]

Object(members) == [type |-> "object", obj |-> members]

\* config_to_dict writing the enum member's name instead of its value
config_to_dict_name(self, c) ==
    Object([ trading         |-> c.trading,
             martingale      |-> c.martingale,
             risk_management |-> c.risk_management,
             telegram        |-> c.telegram,
             risk_level      |-> c.risk_level ])

\* asdict(...) of each sub-record and the enum's value (config_manager.py:426-434)
config_to_dict(self, c) ==
    Object([ trading         |-> c.trading,
             martingale      |-> c.martingale,
             risk_management |-> c.risk_management,
             telegram        |-> c.telegram,
             risk_level      |-> RiskLevel[c.risk_level] ])

\* RiskLevel(value): the member with that value, ValueError when there is none
RiskLevelOf(value) ==
    IF \E m \in RiskLevelMembers : RiskLevel[m] = value
    THEN [raised |-> "none", member |-> CHOOSE m \in RiskLevelMembers : RiskLevel[m] = value]
    ELSE [raised |-> "ValueError", member |-> None]

\* Cls(**members): TypeError on a keyword that is not a field, defaults for
\* the fields not given
Construct(defaults, members) ==
    IF DOMAIN members \subseteq DOMAIN defaults
    THEN [raised |-> "none", rec |-> SetAttrs(defaults, members)]
    ELSE [raised |-> "TypeError", rec |-> defaults]

\* the `if "<key>" in data: config.<key> = Cls(**data["<key>"])` step
SectionStep(st, data, key, defaults) ==
    IF st.raised # "none" \/ key \notin DOMAIN data.obj THEN st
    ELSE LET r == Construct(defaults, data.obj[key])
         IN  IF r.raised # "none" THEN [st EXCEPT !.raised = r.raised]
             ELSE [st EXCEPT !.config = [@ EXCEPT ![key] = r.rec]]

RiskLevelStep(st, data) ==
    IF st.raised # "none" \/ "risk_level" \notin DOMAIN data.obj THEN st
    ELSE LET r == RiskLevelOf(data.obj.risk_level)
         IN  IF r.raised # "none" THEN [st EXCEPT !.raised = r.raised]
             ELSE [st EXCEPT !.config = [@ EXCEPT !.risk_level = r.member]]

\* dict_to_config filling the held configuration instead of a new BotConfig()
dict_to_config_into_held(self, data) ==
    LET s0 == [raised |-> "none", config |-> self.config]
    IN  IF data.type = "number" THEN [s0 EXCEPT !.raised = "TypeError"]
        ELSE IF data.type = "array" THEN s0
        ELSE LET s1 == SectionStep(s0, data, "trading", TradingConfig)
                 s2 == SectionStep(s1, data, "martingale", MartingaleConfig)
                 s3 == SectionStep(s2, data, "risk_management", RiskManagementConfig)
                 s4 == SectionStep(s3, data, "telegram", TelegramConfig)
             IN  RiskLevelStep(s4, data)

\* config_manager.py:436-451.  The result is [raised, config]: the exception
\* that leaves the method ("none" when it returns) and the value returned.
dict_to_config(self, data) ==
    LET s0 == [raised |-> "none", config |-> BotConfig]
    IN  IF data.type = "number" THEN [s0 EXCEPT !.raised = "TypeError"]
        ELSE IF data.type = "array" THEN s0
        ELSE LET s1 == SectionStep(s0, data, "trading", TradingConfig)
                 s2 == SectionStep(s1, data, "martingale", MartingaleConfig)
                 s3 == SectionStep(s2, data, "risk_management", RiskManagementConfig)
                 s4 == SectionStep(s3, data, "telegram", TelegramConfig)
             IN  RiskLevelStep(s4, data)

\* json.dump(data, f, indent=2) into an opened file
json_dump(data) == File("json", data)

\* with open(path, 'r') as f: json.load(f) -- the exception raised, or the value
json_load(file) ==
    CASE file.kind = "inaccessible" -> [raised |-> "IOError", data |-> NoDoc]
      [] file.kind = "undecodable"  -> [raised |-> "UnicodeDecodeError", data |-> NoDoc]
      [] file.kind = "malformed"    -> [raised |-> "JSONDecodeError", data |-> NoDoc]
      [] OTHER                      -> [raised |-> "none", data |-> file.doc]

\* the base class of each exception class met here
Bases ==
    [ JSONDecodeError    |-> "ValueError",
      UnicodeDecodeError |-> "ValueError",
      ValueError         |-> "Exception",
      TypeError          |-> "Exception",
      IOError            |-> "Exception",
      RequestException   |-> "IOError",
      ConnectionError    |-> "RequestException",
      Timeout            |-> "RequestException",
      InvalidJSONError   |-> "RequestException",
      RequestsJSONDecodeError |-> "InvalidJSONError",
      Exception          |-> "Exception" ]

\* does `except handlers` catch an exception of class e
Catches(handlers, e) == e \in handlers \/ Bases[e] \in handlers \/ Bases[Bases[e]] \in handlers

\* except (json.JSONDecodeError, IOError)
LoadHandlers == {"JSONDecodeError", "IOError"}

\* save's handler naming ValueError instead of IOError
SaveHandlersValueError == {"ValueError"}

\* except IOError
SaveHandlers == {"IOError"}

(***************************************************************************)
(* TelegramNotifier (telegram_notifier.py:26-68)                           *)
(***************************************************************************)

\* os.getenv(name, default): the default when the variable is not set
getenv(e, name, default) == IF e[name] = None THEN default ELSE e[name]

\* `a or b` on strings and None
Or(a, b) == IF a \in {None, ""} THEN b ELSE a

\* TelegramNotifier.__init__ in the environment e: the new instance
\* the constructor resolving chat_id from the environment only
TelegramNotifierIgnoresChatArg(e, bot_token, chat_id) ==
    LET token == Or(bot_token, getenv(e, "TELEGRAM_BOT_TOKEN", "YOUR_BOT_TOKEN"))
        chat  == getenv(e, "TELEGRAM_CHAT_ID", "YOUR_CHAT_ID")
    IN  [ bot_token |-> token, chat_id |-> chat,
          base_url  |-> <<"https://api.telegram.org/bot", token>>,
          enabled   |-> (token # "YOUR_BOT_TOKEN" /\ chat # "YOUR_CHAT_ID") ]

TelegramNotifier(e, bot_token, chat_id) ==
    LET token == Or(bot_token, getenv(e, "TELEGRAM_BOT_TOKEN", "YOUR_BOT_TOKEN"))
        chat  == Or(chat_id, getenv(e, "TELEGRAM_CHAT_ID", "YOUR_CHAT_ID"))
    IN  [ bot_token |-> token,
          chat_id   |-> chat,
          base_url  |-> <<"https://api.telegram.org/bot", token>>,
          enabled   |-> (token # "YOUR_BOT_TOKEN" /\ chat # "YOUR_CHAT_ID") ]

\* no variable set
NoEnv == [TELEGRAM_BOT_TOKEN |-> None, TELEGRAM_CHAT_ID |-> None]

\* the notifier plays no part in the operations of the configuration manager
\* _default_notifier = None
NoNotifier == [id |-> 0, self |-> None]

\* no reference taken
NoRef == 0

TgIdle ==
    /\ env = NoEnv
    /\ notifier = TelegramNotifier(NoEnv, None, None)
    /\ posts = <<>>
    /\ default_notifier = NoNotifier

\* self.config = BotConfig(): one object, held by the manager
ObjIdle ==
    /\ heap = <<BotConfig>>
    /\ held = 1
    /\ ref = NoRef

\* the dict literal {"ok": False, "error": ...}
Failed(error) == Object([ok |-> FALSE, error |-> error])

\* What the network does with one requests.post(url, json=payload, timeout=10):
\* requests.post raises exc (a transport failure), or a response arrives whose
\* body is a JSON text or not.  response.json() on a body that is not JSON
\* raises json_raises: requests.exceptions.JSONDecodeError (an
\* InvalidJSONError, hence a RequestException) in requests 2.27 and later,
\* the json module's JSONDecodeError (a ValueError) before; the repository
\* pins no version of requests.
Response(body, json_raises) == [exc |-> "none", body |-> body, json_raises |-> json_raises]
TransportFailure(exc) == [exc |-> exc, body |-> File("missing", NoDoc), json_raises |-> "none"]

NetOutcomes ==
    { Response(File("json", Object([ok |-> TRUE, result |-> "message"])), "none"),
      Response(File("json", Object([ok |-> FALSE, description |-> "Unauthorized"])), "none"),
      Response(File("json", [type |-> "array", obj |-> <<>>]), "none"),
      Response(File("malformed", NoDoc), "RequestsJSONDecodeError"),
      Response(File("malformed", NoDoc), "JSONDecodeError"),
      TransportFailure("ConnectionError"),
      TransportFailure("Timeout") }

\* except requests.exceptions.RequestException
RequestHandlers == {"RequestException"}

\* the try block: response = requests.post(...); return response.json()
\* -- the exception raised inside it, or the value returned
post_and_decode(net) ==
    CASE net.exc # "none"             -> [raised |-> net.exc, data |-> NoDoc]
      [] net.body.kind = "malformed"  -> [raised |-> net.json_raises, data |-> NoDoc]
      [] OTHER                        -> [raised |-> "none", data |-> net.body.doc]

\* send_message without the `if not self.enabled` guard
send_message_unguarded(self, message, parse_mode, net) ==
    LET request == [ url     |-> Append(self.base_url, "/sendMessage"),
                     json    |-> [chat_id |-> self.chat_id, text |-> message,
                                  parse_mode |-> parse_mode],
                     timeout |-> 10 ]
        r == post_and_decode(net)
    IN  IF r.raised = "none"
        THEN [post |-> <<request>>, raised |-> "none", ret |-> r.data]
        ELSE IF Catches(RequestHandlers, r.raised)
        THEN [post |-> <<request>>, raised |-> "none", ret |-> Failed(r.raised)]
        ELSE [post |-> <<request>>, raised |-> r.raised, ret |-> NoDoc]

\* send_message: the requests it posts, the exception that leaves it and the
\* value it returns.  str(e) is represented by the class of e.
send_message(self, message, parse_mode, net) ==
    IF ~self.enabled
    THEN [post |-> <<>>, raised |-> "none", ret |-> Failed("Telegram not configured")]
    ELSE LET request == [ url     |-> Append(self.base_url, "/sendMessage"),
                          json    |-> [chat_id |-> self.chat_id, text |-> message,
                                       parse_mode |-> parse_mode],
                          timeout |-> 10 ]
             r == post_and_decode(net)
         IN  IF r.raised = "none"
             THEN [post |-> <<request>>, raised |-> "none", ret |-> r.data]
             ELSE IF Catches(RequestHandlers, r.raised)
             THEN [post |-> <<request>>, raised |-> "none", ret |-> Failed(r.raised)]
             ELSE [post |-> <<request>>, raised |-> r.raised, ret |-> NoDoc]

\* the send_* methods and the heading of the message each one formats
AlertMessage ==
    [ send_win_alert           |-> "WIN TRADE",
      send_loss_alert          |-> "LOSS TRADE",
      send_bot_started         |-> "BOT STARTED",
      send_bot_stopped         |-> "BOT STOPPED",
      send_take_profit_reached |-> "TAKE PROFIT REACHED!",
      send_stop_loss_triggered |-> "STOP LOSS TRIGGERED!",
      send_max_losses_reached  |-> "MAX CONSECUTIVE LOSSES!",
      send_low_balance_alert   |-> "LOW BALANCE ALERT!",
      send_session_summary     |-> "SESSION UPDATE",
      send_error_alert         |-> "ERROR ALERT" ]

\* test_connection: the requests it posts, the exception that leaves it, the
\* value it returns, the number of send_message calls it makes and the result
\* of that call.  result.get("ok") needs a dict: on any other JSON value
\* (a list, a number) the attribute lookup raises AttributeError.
test_connection(self, net) ==
    IF ~self.enabled
    THEN [post |-> <<>>, raised |-> "none", ret |-> FALSE, sends |-> 0, result |-> NoDoc]
    ELSE LET r == send_message(self, "Test notification from Deriv Rise/Fall Bot Pro", "HTML", net)
         IN  IF r.raised # "none"
             THEN [post |-> r.post, raised |-> r.raised, ret |-> NoDoc, sends |-> 1,
                   result |-> NoDoc]
             ELSE IF r.ret.type # "object"
             THEN [post |-> r.post, raised |-> "AttributeError", ret |-> NoDoc, sends |-> 1,
                   result |-> r.ret]
             ELSE [post |-> r.post, raised |-> "none",
                   ret |-> ("ok" \in DOMAIN r.ret.obj /\ r.ret.obj.ok = TRUE),
                   sends |-> 1, result |-> r.ret]

\* get_notifier replacing the default notifier only when a credential passed
\* differs from the one it holds
get_notifier_cached(dn, e, bot_token, chat_id, id) ==
    IF dn.id = 0
    THEN [id |-> id, self |-> TelegramNotifier(e, bot_token, chat_id)]
    ELSE IF \/ (bot_token \notin {None, ""} /\ bot_token # dn.self.bot_token)
            \/ (chat_id \notin {None, ""} /\ chat_id # dn.self.chat_id)
    THEN [id |-> id, self |-> TelegramNotifier(e, bot_token, chat_id)]
    ELSE dn

\* get_notifier: the value of _default_notifier after the call, which is also
\* the value returned.  dn is _default_notifier before the call; id is the
\* identity a TelegramNotifier created by this call gets.
get_notifier(dn, e, bot_token, chat_id, id) ==
    IF dn.id = 0 \/ bot_token \notin {None, ""} \/ chat_id \notin {None, ""}
    THEN [id |-> id, self |-> TelegramNotifier(e, bot_token, chat_id)]
    ELSE dn

(***************************************************************************)
(* Inputs of the model                                                     *)
(***************************************************************************)

Paths == {"a.json", "b.json"}

\* the values a path argument (or the constructor's config_path) takes
PathArgs == {None, ""} \cup Paths

\* files the environment can put at a path
ExternalFiles ==
    { File("missing", NoDoc),
      File("inaccessible", NoDoc),
      File("undecodable", NoDoc),
      File("malformed", NoDoc),
      File("json", [type |-> "array", obj |-> <<>>]),
      File("json", [type |-> "number", obj |-> <<>>]),
      File("json", Object([risk_level |-> "bogus"])),
      File("json", Object([trading |-> [base_stake |-> -1000], risk_level |-> "custom"])),
      File("json", Object([martingale |-> [enabled |-> FALSE, multiplier |-> 100],
                           telegram |-> [enabled |-> TRUE, bot_token |-> "123:ABC"]])),
      File("json", Object([risk_management |-> [stop_loss |-> 0], trading |-> [foo |-> 1]])) }

\* direct field edits: manager.config.<section>.<field> = value
Edits ==
    { <<"trading", "base_stake", 3500>>,
      <<"trading", "duration_unit", "s">>,
      <<"martingale", "multiplier", 500>>,
      <<"risk_management", "min_balance_threshold", 20000>>,
      <<"telegram", "enabled", TRUE>> }

\* number of operations explored in one behaviour
MaxOps == 4

(***************************************************************************)
(* ConfigManager (config_manager.py:334-383)                               *)
(***************************************************************************)

Falsy(p) == p \in {None, ""}

\* path = path or self.config_path
Resolve(self, path) == IF Falsy(path) THEN self.config_path ELSE path

Self == [config |-> config, config_path |-> config_path]

\* the last call: its name, its path (for apply_preset, its level), how it
\* ended, the exception that left it, its return value, and the
\* configuration held before it
Result(op, path, outcome, raised, ret, before) ==
    [op |-> op, path |-> path, outcome |-> outcome, raised |-> raised,
     ret |-> ret, before |-> before, n |-> last.n + 1]

\* ConfigManager.__init__
New(cp) ==
    /\ config' = BotConfig
    /\ config_path' = cp
    /\ last' = Result("init", cp, "constructed", "none", <<>>, config)
    /\ UNCHANGED <<fs, saved>>

\* load keeping the held configuration when the file's configuration has
\* violations
load_validating(self, path_arg) ==
    LET path == Resolve(self, path_arg)
        keep(outcome, raised) == [outcome |-> outcome, raised |-> raised, config |-> self.config]
    IN  IF Falsy(path) THEN keep("no_path", "none")
        ELSE IF fs[path].kind = "missing" THEN keep("no_file", "none")
        ELSE LET r == json_load(fs[path])
             IN  IF r.raised # "none"
                 THEN IF Catches(LoadHandlers, r.raised)
                      THEN keep("caught", "none") ELSE keep("raised", r.raised)
                 ELSE LET d == dict_to_config(self, r.data)
                      IN  IF d.raised # "none"
                          THEN IF Catches(LoadHandlers, d.raised)
                               THEN keep("caught", "none") ELSE keep("raised", d.raised)
                          ELSE IF ~validate_all(d.config)[1] THEN keep("loaded", "none")
                          ELSE [outcome |-> "loaded", raised |-> "none", config |-> d.config]

\* config_manager.py:344-359.  The result is [outcome, raised, config]:
\* the held configuration after the call, which is also the value returned
\* when no exception leaves the method.
load(self, path_arg) ==
    LET path == Resolve(self, path_arg)
        keep(outcome, raised) == [outcome |-> outcome, raised |-> raised, config |-> self.config]
    IN  IF Falsy(path) THEN keep("no_path", "none")
        ELSE IF fs[path].kind = "missing" THEN keep("no_file", "none")
        ELSE LET r == json_load(fs[path])
             IN  IF r.raised # "none"
                 THEN IF Catches(LoadHandlers, r.raised)
                      THEN keep("caught", "none") ELSE keep("raised", r.raised)
                 ELSE LET d == dict_to_config(self, r.data)
                      IN  IF d.raised # "none"
                          THEN IF Catches(LoadHandlers, d.raised)
                               THEN keep("caught", "none") ELSE keep("raised", d.raised)
                          ELSE [outcome |-> "loaded", raised |-> "none", config |-> d.config]

Load(path_arg) ==
    LET r == load(Self, path_arg)
    IN  /\ config' = r.config
        /\ last' = Result("load", Resolve(Self, path_arg), r.outcome, r.raised, r.config, config)
        /\ UNCHANGED <<config_path, fs, saved>>

\* what the file system does to the write: "ok", or an OSError from open()
\* ("open_error") or from a write of json.dump ("write_error")
IoOutcomes == {"ok", "open_error", "write_error"}

\* config_manager.py:361-375.  The result is [outcome, raised, ret, file]:
\* file is the content of the path after the call.
save(self, path_arg, io) ==
    LET path == Resolve(self, path_arg)
    IN  IF Falsy(path)
        THEN [outcome |-> "no_path", raised |-> "none", ret |-> FALSE, file |-> File("missing", NoDoc)]
        ELSE LET data == config_to_dict(self, self.config)
                 fails(outcome, file) ==
                     IF Catches(SaveHandlers, "IOError")
                     THEN [outcome |-> outcome, raised |-> "none", ret |-> FALSE, file |-> file]
                     ELSE [outcome |-> outcome, raised |-> "IOError", ret |-> FALSE, file |-> file]
             IN  IF fs[path].kind = "inaccessible" \/ io = "open_error"
                 THEN fails("open_error", fs[path])
                 ELSE IF io = "write_error"
                 THEN fails("write_error", File("malformed", NoDoc))
                 ELSE [outcome |-> "written", raised |-> "none", ret |-> TRUE, file |-> json_dump(data)]

Save(path_arg, io) ==
    LET path == Resolve(Self, path_arg)
        r == save(Self, path_arg, io)
    IN  /\ fs' = IF Falsy(path) THEN fs ELSE [fs EXCEPT ![path] = r.file]
        /\ saved' = IF Falsy(path) \/ r.file = fs[path] THEN saved
                    ELSE [saved EXCEPT ![path] = IF r.ret THEN {config} ELSE {}]
        /\ last' = Result("save", path, r.outcome, r.raised, r.ret, config)
        /\ UNCHANGED <<config, config_path>>

\* config_manager.py:377-379
Validate ==
    /\ last' = Result("validate", None, "returned", "none", validate_all(config), config)
    /\ UNCHANGED <<config, config_path, fs, saved>>

\* config_manager.py:381-383
ApplyPreset(level) ==
    /\ config' = apply_preset(config, level)
    /\ last' = Result("apply_preset", level, "returned", "none", <<>>, config)
    /\ UNCHANGED <<config_path, fs, saved>>

\* manager.config.<section>.<field> = value
Edit(e) ==
    /\ config' = [config EXCEPT ![e[1]][e[2]] = e[3]]
    /\ last' = Result("edit", None, "returned", "none", <<>>, config)
    /\ UNCHANGED <<config_path, fs, saved>>

\* s[0] for a str s: its first character, or IndexError for the empty string
FirstChar(s) ==
    CASE s = ""                              -> [raised |-> "IndexError", value |-> ""]
      [] s \in {"ticks", "t"}                -> [raised |-> "none", value |-> "t"]
      [] s \in {"seconds", "s"}              -> [raised |-> "none", value |-> "s"]
      [] s \in {"minutes", "m"}              -> [raised |-> "none", value |-> "m"]
      [] s \in {"TICKS"}                     -> [raised |-> "none", value |-> "T"]
      [] s \in {"Seconds"}                   -> [raised |-> "none", value |-> "S"]
      [] s \in {"M"}                         -> [raised |-> "none", value |-> "M"]
      [] s \in {"invalid"}                   -> [raised |-> "none", value |-> "i"]

\* config_manager.py:385-424: the values the summary text shows (its layout
\* and the two-decimal formatting are not represented)
get_summary(self) ==
    LET c == self.config
        max_loss == calculate_max_loss(c)
        rec_balance == get_recommended_balance(c, <<>>)
    IN  [ raised |-> "none",
          ret |-> [ base_stake  |-> c.trading.base_stake,
                    asset       |-> c.trading.trading_asset,
                    duration    |-> <<c.trading.contract_duration, c.trading.duration_unit>>,
                    direction   |-> c.trading.trade_direction,
                    martingale  |-> <<c.martingale.enabled, c.martingale.multiplier,
                                      c.martingale.max_steps>>,
                    take_profit |-> c.risk_management.take_profit,
                    stop_loss   |-> c.risk_management.stop_loss,
                    max_consecutive_losses |-> c.risk_management.max_consecutive_losses,
                    min_balance |-> c.risk_management.min_balance_threshold,
                    max_loss    |-> max_loss,
                    rec_balance |-> rec_balance,
                    risk_level  |-> c.risk_level,
                    telegram    |-> c.telegram.enabled ] ]

\* config_manager.py:453-470
export_for_xml(self) ==
    LET c == self.config
        first == FirstChar(c.trading.duration_unit)
    IN  IF first.raised # "none" THEN [raised |-> first.raised, ret |-> <<>>]
        ELSE [ raised |-> "none",
               ret |-> [ base_stake             |-> c.trading.base_stake,
                         duration_value         |-> c.trading.contract_duration,
                         duration_type          |-> first.value,
                         symbol                 |-> c.trading.trading_asset,
                         martingale_enabled     |-> c.martingale.enabled,
                         martingale_multiplier  |-> c.martingale.multiplier,
                         max_martingale_steps   |-> c.martingale.max_steps,
                         take_profit            |-> c.risk_management.take_profit,
                         stop_loss              |-> c.risk_management.stop_loss,
                         max_consecutive_losses |-> c.risk_management.max_consecutive_losses,
                         min_balance            |-> c.risk_management.min_balance_threshold,
                         telegram_enabled       |-> c.telegram.enabled,
                         telegram_token         |-> c.telegram.bot_token,
                         telegram_chat_id       |-> c.telegram.chat_id ] ]

GetSummary ==
    LET r == get_summary(Self)
    IN  /\ last' = Result("get_summary", None, "returned", r.raised, r.ret, config)
        /\ UNCHANGED <<config, config_path, fs, saved>>

ExportForXml ==
    LET r == export_for_xml(Self)
    IN  /\ last' = Result("export_for_xml", None,
                          IF r.raised = "none" THEN "returned" ELSE "raised", r.raised, r.ret, config)
        /\ UNCHANGED <<config, config_path, fs, saved>>

\* the environment creates, replaces or removes the file at a path
EnvWrite(p, file) ==
    /\ fs' = [fs EXCEPT ![p] = file]
    /\ saved' = [saved EXCEPT ![p] = {}]
    /\ last' = Result("env", p, "returned", "none", <<>>, config)
    /\ UNCHANGED <<config, config_path>>

Init ==
    /\ config = BotConfig
    /\ config_path \in PathArgs
    /\ fs = [p \in Paths |-> File("missing", NoDoc)]
    /\ saved = [p \in Paths |-> {}]
    /\ TgIdle
    /\ ObjIdle
    /\ last = [op |-> "init", path |-> config_path, outcome |-> "constructed", raised |-> "none",
               ret |-> <<>>, before |-> BotConfig, n |-> 0]

Next ==
    /\ last.n < MaxOps
    /\ UNCHANGED <<tgVars, objVars>>
    /\ \/ \E cp \in PathArgs : New(cp)
       \/ \E p \in PathArgs : Load(p)
       \/ \E p \in PathArgs, io \in IoOutcomes : Save(p, io)
       \/ Validate
       \/ \E l \in RiskLevelMembers : ApplyPreset(l)
       \/ \E e \in Edits : Edit(e)
       \/ \E p \in Paths, f \in ExternalFiles : EnvWrite(p, f)

Spec == Init /\ [][Next]_vars

(***************************************************************************)
(* The validators as operations on a given configuration                   *)
(* (SpecValidator: the configuration is an input drawn by InitValidator)   *)
(***************************************************************************)

TradingInputs ==
    [ base_stake        : {-1000, 0, 5, 10, 1000, 10000000, 10000001},
      contract_type     : {"rise_fall"},
      contract_duration : {0, 1, 5},
      duration_unit     : {"ticks", "TICKS", "s", "invalid", ""},
      trading_asset     : {"R_100"},
      trade_direction   : {"random", "CALL", "up"} ]

MartingaleInputs ==
    [ enabled      : BOOLEAN,
      multiplier   : {100, 1099, 1100, 2000, 10000, 10001},
      max_steps    : {0, 1, 5, 20, 21, 100},
      reset_on_win : {TRUE} ]

RiskInputs ==
    [ take_profit            : {-10000, 50000},
      stop_loss              : {0, 25000},
      max_consecutive_losses : {0, 5},
      min_balance_threshold  : {0, 10000},
      max_daily_trades       : {-1, 0} ]

TelegramInputs ==
    { [TelegramConfig EXCEPT !.enabled = e, !.bot_token = t, !.chat_id = c] :
        e \in BOOLEAN,
        t \in {"", "YOUR_BOT_TOKEN", "invalid_token_no_colon", "123:ABC"},
        c \in {"", "YOUR_CHAT_ID", "123456"} }

\* configurations that differ from the default in one sub-record, and a
\* product of a few values of each sub-record
ConfigInputs ==
    { [BotConfig EXCEPT !.trading = t] : t \in TradingInputs }
    \cup { [BotConfig EXCEPT !.martingale = m] : m \in MartingaleInputs }
    \cup { [BotConfig EXCEPT !.risk_management = r] : r \in RiskInputs }
    \cup { [BotConfig EXCEPT !.telegram = g] : g \in TelegramInputs }
    \cup { [BotConfig EXCEPT !.trading = t, !.martingale = m, !.risk_management = r, !.telegram = g] :
             t \in {TradingConfig, [TradingConfig EXCEPT !.base_stake = -1000]},
             m \in {MartingaleConfig, [MartingaleConfig EXCEPT !.multiplier = 500],
                    [MartingaleConfig EXCEPT !.enabled = FALSE, !.multiplier = 100, !.max_steps = 100]},
             r \in {RiskManagementConfig, [RiskManagementConfig EXCEPT !.take_profit = -10000]},
             g \in {TelegramConfig, [TelegramConfig EXCEPT !.enabled = TRUE]} }

\* number of validator calls explored on one configuration
MaxCalls == 2

Call(op, ret) ==
    /\ last' = Result(op, None, "returned", "none", ret, config)
    /\ UNCHANGED <<config, config_path, fs, saved>>

\* validate_trading_config storing the lower-cased unit back into its argument
ValidateTradingNormalizing ==
    /\ last' = Result("validate_trading_config", None, "returned", "none",
                      validate_trading_config(config.trading), config)
    /\ config' = [config EXCEPT !.trading.duration_unit = lower(@)]
    /\ UNCHANGED <<config_path, fs, saved>>

ValidateTrading == Call("validate_trading_config", validate_trading_config(config.trading))

ValidateMartingale == Call("validate_martingale_config", validate_martingale_config(config.martingale))

ValidateRisk == Call("validate_risk_config", validate_risk_config(config.risk_management))

ValidateTelegram == Call("validate_telegram_config", validate_telegram_config(config.telegram))

ValidateAll == Call("validate_all", validate_all(config))

InitValidator ==
    /\ config \in ConfigInputs
    /\ config_path = None
    /\ fs = [p \in Paths |-> File("missing", NoDoc)]
    /\ saved = [p \in Paths |-> {}]
    /\ TgIdle
    /\ ObjIdle
    /\ last = [op |-> "init", path |-> None, outcome |-> "constructed", raised |-> "none",
               ret |-> <<>>, before |-> config, n |-> 0]

NextValidator ==
    /\ last.n < MaxCalls
    /\ UNCHANGED <<tgVars, objVars>>
    /\ \/ ValidateTrading
       \/ ValidateMartingale
       \/ ValidateRisk
       \/ ValidateTelegram
       \/ ValidateAll
       \/ Validate

SpecValidator == InitValidator /\ [][NextValidator]_vars

(***************************************************************************)
(* The loss calculator on its own: PresetManager.calculate_max_loss and     *)
(* get_recommended_balance applied to configurations drawn from             *)
(* PresetInputs.                                                            *)
(***************************************************************************)
PresetInputs ==
    { [BotConfig EXCEPT !.trading.base_stake = b,
                        !.martingale.enabled = e,
                        !.martingale.multiplier = m,
                        !.martingale.max_steps = k] :
        b \in {0, 500, 1000, 5000, -1000},
        e \in BOOLEAN,
        m \in {500, 1000, 1500, 2000, 2500},
        k \in {-1, 0, 1, 3, 5, 7} }

FactorArgs == {<<>>, <<2000>>, <<1000>>, <<1500>>, <<0>>, <<3000>>}

CalculateMaxLoss == Call("calculate_max_loss", calculate_max_loss(config))

GetRecommendedBalance(args) ==
    /\ last' = Result("get_recommended_balance", args, "returned", "none",
                      get_recommended_balance(config, args), config)
    /\ UNCHANGED <<config, config_path, fs, saved>>

\* create_config_from_preset(level): the configuration it returns becomes
\* the one under examination
CreateConfigFromPreset(level) ==
    /\ config' = create_config_from_preset(level)
    /\ last' = Result("create_config_from_preset", level, "returned", "none", config', config)
    /\ UNCHANGED <<config_path, fs, saved>>

InitPreset ==
    /\ config \in PresetInputs
    /\ config_path = None
    /\ fs = [p \in Paths |-> File("missing", NoDoc)]
    /\ saved = [p \in Paths |-> {}]
    /\ TgIdle
    /\ ObjIdle
    /\ last = [op |-> "init", path |-> None, outcome |-> "constructed", raised |-> "none",
               ret |-> <<>>, before |-> config, n |-> 0]

NextPreset ==
    /\ last.n < MaxCalls
    /\ UNCHANGED <<tgVars, objVars>>
    /\ \/ CalculateMaxLoss
       \/ \E args \in FactorArgs : GetRecommendedBalance(args)
       \/ \E l \in RiskLevelMembers : ApplyPreset(l)
       \/ \E l \in RiskLevelMembers : CreateConfigFromPreset(l)
       \/ ValidateAll

SpecPreset == InitPreset /\ [][NextPreset]_vars

(***************************************************************************)
(* The notifier on its own: a TelegramNotifier constructed in an            *)
(* environment drawn from EnvInputs, re-constructed with explicit           *)
(* credentials, and used to send.  posts holds the requests.post calls made *)
(* through the current notifier, oldest first.                              *)
(***************************************************************************)
EnvInputs ==
    { [TELEGRAM_BOT_TOKEN |-> t, TELEGRAM_CHAT_ID |-> c] :
        t \in {None, "", "123:ABC"}, c \in {None, "123456"} }

TokenArgs == {None, "", "999:XYZ", "YOUR_BOT_TOKEN"}
ChatArgs == {None, "", "42", "YOUR_CHAT_ID"}

\* TelegramNotifier(bot_token, chat_id)
NewNotifier(bot_token, chat_id) ==
    /\ notifier' = TelegramNotifier(env, bot_token, chat_id)
    /\ posts' = <<>>
    /\ last' = Result("TelegramNotifier", <<bot_token, chat_id>>, "constructed", "none",
                      <<>>, config)
    /\ UNCHANGED <<env, config, config_path, fs, saved>>

\* one call that ends in self.send_message(message, parse_mode) while the
\* network behaves as net
Send(op, message, parse_mode, net) ==
    LET r == send_message(notifier, message, parse_mode, net)
    IN  /\ posts' = posts \o r.post
        /\ last' = Result(op, message, IF r.post = <<>> THEN "no request" ELSE net,
                          r.raised, r.ret, config)
        /\ UNCHANGED <<env, notifier, config, config_path, fs, saved>>

\* notifier.send_message(message, parse_mode)
SendMessage(message, parse_mode, net) == Send("send_message", message, parse_mode, net)

\* notifier.send_win_alert(...), ..., notifier.send_error_alert(...):
\* format the message, then return self.send_message(message)
SendAlert(method, net) == Send(method, AlertMessage[method], "HTML", net)

\* notifier.test_connection() while the network behaves as net; the outcome
\* recorded is the number of send_message calls and the result of the send
TestConnection(net) ==
    LET r == test_connection(notifier, net)
    IN  /\ posts' = posts \o r.post
        /\ last' = Result("test_connection", net, [sends |-> r.sends, result |-> r.result],
                          r.raised, r.ret, config)
        /\ UNCHANGED <<env, notifier, config, config_path, fs, saved>>

InitNotifier ==
    /\ config = BotConfig
    /\ config_path = None
    /\ fs = [p \in Paths |-> File("missing", NoDoc)]
    /\ saved = [p \in Paths |-> {}]
    /\ env \in EnvInputs
    /\ notifier = TelegramNotifier(env, None, None)
    /\ posts = <<>>
    /\ default_notifier = NoNotifier
    /\ ObjIdle
    /\ last = [op |-> "TelegramNotifier", path |-> <<None, None>>, outcome |-> "constructed",
               raised |-> "none", ret |-> <<>>, before |-> config, n |-> 0]

NextNotifier ==
    /\ last.n < MaxCalls
    /\ UNCHANGED <<default_notifier, objVars>>
    /\ \/ \E bot_token \in TokenArgs, chat_id \in ChatArgs : NewNotifier(bot_token, chat_id)
       \/ \E parse_mode \in {"HTML", "Markdown"}, net \in NetOutcomes :
             SendMessage("hello", parse_mode, net)
       \/ \E method \in DOMAIN AlertMessage, net \in NetOutcomes : SendAlert(method, net)
       \/ \E net \in NetOutcomes : TestConnection(net)

SpecNotifier == InitNotifier /\ [][NextNotifier]_vars

(***************************************************************************)
(* The module-level functions get_notifier and send_telegram_message        *)
(* (telegram_notifier.py:260-273) over _default_notifier, while the          *)
(* environment variables may change between calls.  A TelegramNotifier      *)
(* created by the n-th call has identity n; posts holds every               *)
(* requests.post call made, oldest first.                                   *)
(***************************************************************************)
MaxDefaultCalls == 3

CredentialArgs ==
    { <<None, None>>, <<"", "">>, <<"999:XYZ", "42">>, <<"999:XYZ", None>>, <<"", "42">> }

DefaultNets ==
    { Response(File("json", Object([ok |-> TRUE, result |-> "message"])), "none"),
      TransportFailure("Timeout") }

\* get_notifier(bot_token, chat_id)
GetNotifier(bot_token, chat_id) ==
    LET dn == get_notifier(default_notifier, env, bot_token, chat_id, last.n + 1)
    IN  /\ default_notifier' = dn
        /\ last' = Result("get_notifier", <<bot_token, chat_id>>, "returned", "none", dn, config)
        /\ UNCHANGED <<env, notifier, posts, config, config_path, fs, saved>>

\* send_telegram_message(message, bot_token, chat_id) while the network
\* behaves as net
SendTelegramMessage(message, bot_token, chat_id, net) ==
    LET dn == get_notifier(default_notifier, env, bot_token, chat_id, last.n + 1)
        r  == send_message(dn.self, message, "HTML", net)
    IN  /\ default_notifier' = dn
        /\ posts' = posts \o r.post
        /\ last' = Result("send_telegram_message", <<bot_token, chat_id>>,
                          IF r.post = <<>> THEN "no request" ELSE net, r.raised, r.ret, config)
        /\ UNCHANGED <<env, notifier, config, config_path, fs, saved>>

\* os.environ[name] = value, or del os.environ[name] (value None)
SetEnv(name, value) ==
    /\ env[name] # value
    /\ env' = [env EXCEPT ![name] = value]
    /\ last' = Result("environ", name, "returned", "none", <<>>, config)
    /\ UNCHANGED <<notifier, posts, default_notifier, config, config_path, fs, saved>>

InitDefault ==
    /\ config = BotConfig
    /\ config_path = None
    /\ fs = [p \in Paths |-> File("missing", NoDoc)]
    /\ saved = [p \in Paths |-> {}]
    /\ env \in EnvInputs
    /\ notifier = TelegramNotifier(NoEnv, None, None)
    /\ posts = <<>>
    /\ default_notifier = NoNotifier
    /\ ObjIdle
    /\ last = [op |-> "import", path |-> None, outcome |-> "constructed", raised |-> "none",
               ret |-> <<>>, before |-> config, n |-> 0]

NextDefault ==
    /\ last.n < MaxDefaultCalls
    /\ UNCHANGED objVars
    /\ \/ \E a \in CredentialArgs : GetNotifier(a[1], a[2])
       \/ \E a \in CredentialArgs, net \in DefaultNets : SendTelegramMessage("hello", a[1], a[2], net)
       \/ \E t \in {None, "123:ABC"} : SetEnv("TELEGRAM_BOT_TOKEN", t)
       \/ \E c \in {None, "123456"} : SetEnv("TELEGRAM_CHAT_ID", c)

SpecDefault == InitDefault /\ [][NextDefault]_vars

(***************************************************************************)
(* The manager's public operations on what it can come to hold: a manager   *)
(* with config_path "a.json", a file there drawn from OpsFiles, then any    *)
(* sequence of load, save, validate, apply_preset, direct edits,            *)
(* get_summary and export_for_xml.                                          *)
(***************************************************************************)
OpsFiles ==
    { File("malformed", NoDoc),
      File("json", Object([trading |-> [duration_unit |-> ""]])),
      File("json", Object([trading |-> [base_stake |-> -1000], risk_level |-> "custom"])),
      File("json", Object([trading |-> [trading_asset |-> "", trade_direction |-> ""],
                           telegram |-> [enabled |-> TRUE, bot_token |-> ""]])),
      File("json", Object([martingale |-> [multiplier |-> 100000, max_steps |-> 0],
                           risk_management |-> [stop_loss |-> 0, max_daily_trades |-> -1]])) }

OpsEdits ==
    { <<"trading", "duration_unit", "">>,
      <<"trading", "duration_unit", "seconds">>,
      <<"trading", "base_stake", -1000>>,
      <<"martingale", "enabled", FALSE>> }

InitOps ==
    /\ config = BotConfig
    /\ config_path = "a.json"
    /\ \E f \in OpsFiles : fs = [p \in Paths |-> IF p = "a.json" THEN f ELSE File("missing", NoDoc)]
    /\ saved = [p \in Paths |-> {}]
    /\ TgIdle
    /\ ObjIdle
    /\ last = [op |-> "init", path |-> config_path, outcome |-> "constructed", raised |-> "none",
               ret |-> <<>>, before |-> BotConfig, n |-> 0]

NextOps ==
    /\ last.n < MaxOps
    /\ UNCHANGED <<tgVars, objVars>>
    /\ \/ Load(None)
       \/ \E p \in {None, "b.json"}, io \in IoOutcomes : Save(p, io)
       \/ Validate
       \/ \E l \in RiskLevelMembers : ApplyPreset(l)
       \/ \E e \in OpsEdits : Edit(e)
       \/ GetSummary
       \/ ExportForXml

SpecOps == InitOps /\ [][NextOps]_vars

(***************************************************************************)
(* Object identity.  heap[i] is the BotConfig created i-th, held is the     *)
(* one self.config names, ref is one a caller obtained earlier from         *)
(* manager.config or from load() (NoRef: none yet).  config is always       *)
(* heap[held].                                                              *)
(***************************************************************************)

\* apply_preset filling a fresh BotConfig and returning that one
apply_preset_object_copying(h, id, level) ==
    [heap |-> Append(h, apply_preset(h[id], level)), ret |-> Len(h) + 1]

\* PresetManager.apply_preset (config_manager.py:250-271) on objects: setattr
\* on the sub-objects of the argument, config.risk_level = level,
\* return config
apply_preset_object(h, id, level) ==
    [heap |-> [h EXCEPT ![id] = apply_preset(@, level)], ret |-> id]

\* ConfigManager.load (config_manager.py:344-359) on objects:
\* _dict_to_config builds a new BotConfig() (436-451) which self.config then
\* names; every other path returns the object already held
load_object(h, id, path_arg) ==
    LET r == load([config |-> h[id], config_path |-> config_path], path_arg)
    IN  IF r.outcome = "loaded"
        THEN [heap |-> Append(h, r.config), held |-> Len(h) + 1, result |-> r]
        ELSE [heap |-> h, held |-> id, result |-> r]

\* self.config = self.preset_manager.apply_preset(self.config, level)
ObjApplyPreset(level) ==
    LET r == apply_preset_object(heap, held, level)
    IN  /\ heap' = r.heap
        /\ held' = r.ret
        /\ config' = heap'[held']
        /\ last' = Result("apply_preset", level, "returned", "none", r.ret, config)
        /\ UNCHANGED <<config_path, fs, saved, ref>>

\* manager.load(); the caller keeps the returned object or drops it
ObjLoad(path_arg, keep) ==
    LET r == load_object(heap, held, path_arg)
    IN  /\ heap' = r.heap
        /\ held' = r.held
        /\ config' = heap'[held']
        /\ ref' = IF keep /\ r.result.raised = "none" THEN r.held ELSE ref
        /\ last' = Result("load", Resolve(Self, path_arg), r.result.outcome, r.result.raised,
                          r.held, config)
        /\ UNCHANGED <<config_path, fs, saved>>

\* ref = manager.config
TakeRef ==
    /\ ref' = held
    /\ last' = Result("config", None, "returned", "none", held, config)
    /\ UNCHANGED <<config, config_path, fs, saved, heap, held>>

\* ref.<section>.<field> = value, through the reference obtained earlier
EditRef(e) ==
    /\ ref # NoRef
    /\ heap' = [heap EXCEPT ![ref] = [@ EXCEPT ![e[1]][e[2]] = e[3]]]
    /\ config' = heap'[held]
    /\ last' = Result("edit", None, "returned", "none", ref, config)
    /\ UNCHANGED <<config_path, fs, saved, held, ref>>

RefFiles ==
    { File("malformed", NoDoc),
      File("json", Object([trading |-> [base_stake |-> 7000]])),
      File("json", Object([risk_level |-> "aggressive"])) }

RefEdits == { <<"trading", "base_stake", 3000>> }

InitRefs ==
    /\ config = BotConfig
    /\ config_path = "a.json"
    /\ \E f \in RefFiles : fs = [p \in Paths |-> IF p = "a.json" THEN f ELSE File("missing", NoDoc)]
    /\ saved = [p \in Paths |-> {}]
    /\ TgIdle
    /\ ObjIdle
    /\ last = [op |-> "init", path |-> config_path, outcome |-> "constructed", raised |-> "none",
               ret |-> <<>>, before |-> BotConfig, n |-> 0]

NextRefs ==
    /\ last.n < MaxOps
    /\ UNCHANGED tgVars
    /\ \/ \E l \in RiskLevelMembers : ObjApplyPreset(l)
       \/ \E p \in {None, "b.json"}, keep \in BOOLEAN : ObjLoad(p, keep)
       \/ TakeRef
       \/ \E e \in RefEdits : EditRef(e)

SpecRefs == InitRefs /\ [][NextRefs]_vars



(***************************************************************************)
(* Properties                                                              *)
(***************************************************************************)

KnownRiskLevels == {"conservative", "moderate", "aggressive", "custom"}

\* the file that the last load or save named
LastFile == fs[last.path]

\* C1: load with no resolvable path, with a path that names no file, or with
\* a file that is not valid JSON or cannot be read, returns the configuration
\* held before the call, leaves it unchanged, and does not raise.
C1_LoadFailureKeepsConfig ==
    ( /\ last.op = "load"
      /\ \/ Falsy(last.path)
         \/ LastFile.kind \in {"missing", "inaccessible", "undecodable", "malformed"} )
    => /\ last.raised = "none"
       /\ last.ret = last.before
       /\ config = last.before

\* C2: load of well-formed JSON whose risk_level is not one of the four
\* known values does not raise and returns the previously held
\* configuration, left unchanged.
C2_UnknownRiskLevelKeepsConfig ==
    ( /\ last.op = "load"
      /\ ~Falsy(last.path)
      /\ LastFile.kind = "json"
      /\ LastFile.doc.type = "object"
      /\ "risk_level" \in DOMAIN LastFile.doc.obj
      /\ LastFile.doc.obj.risk_level \notin KnownRiskLevels )
    => /\ last.raised = "none"
       /\ last.ret = last.before
       /\ config = last.before

\* C3: a configuration written by save and read back (by load on any manager,
\* or by _dict_to_config applied to the file's content) is equal to the saved
\* one in the four sub-records and in risk_level.
C3_RoundTrip ==
    /\ \A p \in Paths : \A c \in saved[p] :
          /\ fs[p].kind = "json"
          /\ json_load(fs[p]).raised = "none"
          /\ dict_to_config(Self, json_load(fs[p]).data) = [raised |-> "none", config |-> c]
    /\ ( /\ last.op = "load"
         /\ ~Falsy(last.path)
         /\ saved[last.path] # {} )
       => /\ last.outcome = "loaded"
          /\ saved[last.path] = {config}
          /\ \A k \in Sections \cup {"risk_level"} : \A c \in saved[last.path] : config[k] = c[k]

\* C3 witness: a fresh manager (default configuration) loaded a file saved
\* from a configuration with another risk level and other field values.
C3_Witness ==
    /\ last.op = "load"
    /\ last.outcome = "loaded"
    /\ ~Falsy(last.path)
    /\ saved[last.path] = {config}
    /\ last.before = BotConfig
    /\ config.risk_level = "AGGRESSIVE"
    /\ config.trading # TradingConfig

\* the sub-record a JSON object gives for a section: its members over the defaults
Given(defaults, members) ==
    [f \in DOMAIN defaults |-> IF f \in DOMAIN members THEN members[f] ELSE defaults[f]]

\* C4: after a successful load of a JSON object each section and risk_level
\* holds the file's value when the key is present and the default when it is
\* absent, whatever was held before.
C4_LoadedFromFileOrDefault ==
    ( /\ last.op = "load"
      /\ last.outcome = "loaded"
      /\ LastFile.doc.type = "object" )
    => LET obj == LastFile.doc.obj
       IN  /\ \A k \in Sections :
                config[k] = IF k \in DOMAIN obj THEN Given(BotConfig[k], obj[k]) ELSE BotConfig[k]
           /\ IF "risk_level" \in DOMAIN obj
              THEN RiskLevel[config.risk_level] = obj.risk_level
              ELSE config.risk_level = "MODERATE"

\* C4 witness: a load replaced a preset's martingale and risk values, absent
\* from the file, by the defaults, and took trading and risk_level from the file.
C4_Witness ==
    /\ last.op = "load"
    /\ last.outcome = "loaded"
    /\ LastFile.doc.type = "object"
    /\ DOMAIN LastFile.doc.obj = {"trading", "risk_level"}
    /\ last.before.martingale # MartingaleConfig
    /\ last.before.risk_level = "AGGRESSIVE"
    /\ config.martingale = MartingaleConfig
    /\ config.trading.base_stake = -1000
    /\ config.risk_level = "CUSTOM"

\* C5: save never raises and leaves the held configuration unchanged; with no
\* resolvable path it returns False and writes no file; when the write fails
\* with an I/O error it returns False; it returns True only when the file
\* holds the whole configuration.
C5_SaveContract ==
    [][ (last'.op = "save" /\ last'.n = last.n + 1)
        => /\ last'.raised = "none"
           /\ config' = config
           /\ (Falsy(Resolve(Self, last'.path)) => last'.ret = FALSE /\ fs' = fs)
           /\ (last'.outcome \in {"open_error", "write_error"} => last'.ret = FALSE)
           /\ (last'.ret = TRUE =>
                 /\ fs'[last'.path].kind = "json"
                 /\ fs'[last'.path].doc.type = "object"
                 /\ DOMAIN fs'[last'.path].doc.obj = Sections \cup {"risk_level"}
                 /\ \A k \in Sections : fs'[last'.path].doc.obj[k] = config[k]
                 /\ fs'[last'.path].doc.obj.risk_level = RiskLevel[config.risk_level]) ]_vars

\* C5 witness: a save whose write failed returned False and did not raise.
C5_Witness ==
    /\ last.op = "save"
    /\ last.outcome = "write_error"
    /\ last.ret = FALSE
    /\ last.raised = "none"
    /\ config # BotConfig

Recognized(c) ==
    /\ lower(c.duration_unit) \in {"ticks", "seconds", "minutes", "t", "s", "m"}
    /\ lower(c.trade_direction) \in {"random", "rise", "fall", "call", "put"}

\* C6 as stated: for base_stake in (0, 10000] and recognized duration_unit and
\* trade_direction, validate_trading_config returns an empty list.
C6_Original ==
    ( /\ last.op = "validate_trading_config"
      /\ config.trading.base_stake > 0
      /\ config.trading.base_stake <= 10000000
      /\ Recognized(config.trading) )
    => last.ret = <<>>

\* C6 amended: for base_stake in [0.01, 10000], contract_duration >= 1 and
\* recognized duration_unit and trade_direction, validate_trading_config
\* returns an empty list.
C6_ValidTradingConfig ==
    ( /\ last.op = "validate_trading_config"
      /\ config.trading.base_stake >= 10
      /\ config.trading.base_stake <= 10000000
      /\ config.trading.contract_duration >= 1
      /\ Recognized(config.trading) )
    => last.ret = <<>>

\* C6 witness: the stake 0.01 on the lower bound, with an upper-case unit and
\* direction, was accepted.
C6_Witness ==
    /\ last.op = "validate_trading_config"
    /\ config.trading.base_stake = 10
    /\ config.trading.contract_duration = 5
    /\ config.trading.duration_unit = "TICKS"
    /\ config.trading.trade_direction = "CALL"
    /\ last.ret = <<>>

Names(errors, fields) == \E i \in 1..Len(errors) : errors[i].field \in fields

\* C7: for base_stake <= 0, zero included, validate_trading_config returns a
\* non-empty list with a message that names the stake field, whatever the
\* other fields are.
C7_NonPositiveStakeReported ==
    (last.op = "validate_trading_config" /\ config.trading.base_stake <= 0)
    => /\ Len(last.ret) > 0
       /\ Names(last.ret, {"Base stake"})

\* C7 witness: the stake 0 was reported on an otherwise valid configuration.
C7_Witness ==
    /\ last.op = "validate_trading_config"
    /\ config.trading.base_stake = 0
    /\ config.trading.contract_duration >= 1
    /\ Recognized(config.trading)
    /\ Names(last.ret, {"Base stake"})

\* C8: with enabled false, validate_martingale_config and
\* validate_telegram_config return an empty list for every value of the other
\* fields, and validate_all carries no martingale or Telegram violation.
C8_DisabledSkipsValidation ==
    /\ (last.op = "validate_martingale_config" /\ ~config.martingale.enabled) => last.ret = <<>>
    /\ (last.op = "validate_telegram_config" /\ ~config.telegram.enabled) => last.ret = <<>>
    /\ (last.op = "validate_all" /\ ~config.martingale.enabled)
          => ~Names(last.ret[2], {"Multiplier", "Max martingale steps"})
    /\ (last.op = "validate_all" /\ ~config.telegram.enabled)
          => ~Names(last.ret[2], {"Telegram bot token", "Telegram chat ID"})

\* C8 witness: the disabled martingale record with multiplier 0.1 and 100 steps
\* was validated with no violation.
C8_Witness ==
    /\ last.op = "validate_martingale_config"
    /\ ~config.martingale.enabled
    /\ config.martingale.multiplier = 100
    /\ config.martingale.max_steps = 100
    /\ last.ret = <<>>

\* C9: with martingale enabled, a multiplier violation is reported exactly
\* when multiplier is outside [1.1, 10.0] and a max-steps violation exactly
\* when max_steps is outside [1, 20], each independently of the other.
C9_MartingaleRanges ==
    (last.op = "validate_martingale_config" /\ config.martingale.enabled)
    => /\ Names(last.ret, {"Multiplier"})
             <=> (config.martingale.multiplier < 1100 \/ config.martingale.multiplier > 10000)
       /\ Names(last.ret, {"Max martingale steps"})
             <=> (config.martingale.max_steps < 1 \/ config.martingale.max_steps > 20)
       /\ Len(last.ret) <= 2

\* C9 witness: the bounds 10.0 and 20 were accepted.
C9_Witness ==
    /\ last.op = "validate_martingale_config"
    /\ config.martingale.enabled
    /\ config.martingale.multiplier = 10000
    /\ config.martingale.max_steps = 20
    /\ last.ret = <<>>

\* C10: validate_all returns the trading, martingale, risk and Telegram
\* violation lists concatenated in that order, its boolean is true exactly
\* when the list is empty, and it does not raise.
C10_ValidateAllConcatenates ==
    (last.op = "validate_all")
    => /\ last.raised = "none"
       /\ last.ret[2] = validate_trading_config(config.trading)
                        \o validate_martingale_config(config.martingale)
                        \o validate_risk_config(config.risk_management)
                        \o validate_telegram_config(config.telegram)
       /\ last.ret[1] = (last.ret[2] = <<>>)

\* C10 witness: validate_all returned violations of all four validators.
C10_Witness ==
    /\ last.op = "validate_all"
    /\ last.ret[1] = FALSE
    /\ Names(last.ret[2], {"Base stake"})
    /\ Names(last.ret[2], {"Multiplier"})
    /\ Names(last.ret[2], {"Take profit"})
    /\ Names(last.ret[2], {"Telegram bot token"})

ValidatorOps ==
    {"validate_trading_config", "validate_martingale_config", "validate_risk_config",
     "validate_telegram_config", "validate_all", "validate"}

PresetFields(c) ==
    << c.trading.base_stake, c.martingale.multiplier, c.martingale.max_steps,
       c.risk_management.take_profit, c.risk_management.stop_loss,
       c.risk_management.max_consecutive_losses >>

\* C12: after apply_preset with conservative, moderate or aggressive the six
\* preset fields hold that level's catalog values and risk_level is the
\* level; aggressive gives 2.00, 2.5, 7, 100.00, 50.00, 7.
C12_PresetValuesApplied ==
    (last.op = "apply_preset" /\ last.path \in {"CONSERVATIVE", "MODERATE", "AGGRESSIVE"})
    => /\ config.risk_level = last.path
       /\ PresetFields(config) =
            CASE last.path = "CONSERVATIVE" -> <<500, 1500, 3, 25000, 15000, 3>>
              [] last.path = "MODERATE"     -> <<1000, 2000, 5, 50000, 25000, 5>>
              [] last.path = "AGGRESSIVE"   -> <<2000, 2500, 7, 100000, 50000, 7>>

\* C12 witness: aggressive was applied to a configuration holding none of its values.
C12_Witness ==
    /\ last.op = "apply_preset"
    /\ last.path = "AGGRESSIVE"
    /\ \A i \in 1..6 : PresetFields(last.before)[i] # PresetFields(config)[i]
    /\ last.before.risk_level = "CONSERVATIVE"
    /\ config.risk_level = "AGGRESSIVE"

\* C13: apply_preset and get_preset with the custom level use the moderate
\* values 1.00, 2.0, 5, 50.00, 25.00, 5, and risk_level becomes custom.
C13_CustomFallsBackToModerate ==
    /\ (last.op = "apply_preset" /\ last.path = "CUSTOM")
          => /\ PresetFields(config) = <<1000, 2000, 5, 50000, 25000, 5>>
             /\ config.risk_level = "CUSTOM"
    /\ (last.op = "apply_preset")
          => get_preset("CUSTOM") =
                [ trading         |-> [base_stake |-> 1000],
                  martingale      |-> [multiplier |-> 2000, max_steps |-> 5],
                  risk_management |-> [take_profit |-> 50000, stop_loss |-> 25000,
                                       max_consecutive_losses |-> 5] ]

\* C13 witness: custom was applied to the aggressive configuration.
C13_Witness ==
    /\ last.op = "apply_preset"
    /\ last.path = "CUSTOM"
    /\ PresetFields(last.before) = <<2000, 2500, 7, 100000, 50000, 7>>
    /\ PresetFields(config) = <<1000, 2000, 5, 50000, 25000, 5>>
    /\ config.risk_level = "CUSTOM"

\* C14: apply_preset keeps contract_type, contract_duration, duration_unit,
\* trading_asset, trade_direction, martingale.enabled, martingale.reset_on_win,
\* min_balance_threshold, max_daily_trades and every Telegram field.
C14_PresetKeepsOtherFields ==
    (last.op = "apply_preset")
    => /\ \A f \in {"contract_type", "contract_duration", "duration_unit",
                    "trading_asset", "trade_direction"} :
             config.trading[f] = last.before.trading[f]
       /\ \A f \in {"enabled", "reset_on_win"} :
             config.martingale[f] = last.before.martingale[f]
       /\ \A f \in {"min_balance_threshold", "max_daily_trades"} :
             config.risk_management[f] = last.before.risk_management[f]
       /\ config.telegram = last.before.telegram

\* C14 witness: a preset changed the stake of a configuration and kept its
\* edited duration_unit, min_balance_threshold and Telegram flag.
C14_Witness ==
    /\ last.op = "apply_preset"
    /\ config.trading.base_stake # last.before.trading.base_stake
    /\ config.trading.duration_unit = "s"
    /\ config.risk_management.min_balance_threshold = 20000
    /\ config.telegram.enabled

\* the violations of a list that are about the given field
About(errors, field) == {i \in 1..Len(errors) : errors[i].field = field}

\* C17: with Telegram enabled, validate_telegram_config reports the token
\* when it is empty or the placeholder, the chat id when it is empty or the
\* placeholder, and the token's format for every non-empty token without ':';
\* the list is empty exactly when the token is not the placeholder and has a
\* ':' and the chat id is neither empty nor the placeholder.
C17_TelegramValidation ==
    (last.op = "validate_telegram_config" /\ last.before.telegram.enabled)
    => LET c == last.before.telegram
           errors == last.ret
       IN  /\ c.bot_token \in {"", "YOUR_BOT_TOKEN"}
                => About(errors, "Telegram bot token") # {}
           /\ c.chat_id \in {"", "YOUR_CHAT_ID"}
                => \E i \in About(errors, "Telegram chat ID") :
                       errors[i].text = "is not configured"
           /\ (c.bot_token # "" /\ ~HasColon(c.bot_token))
                => \E i \in About(errors, "Telegram bot token") :
                       errors[i].text = "format appears invalid (should contain ':')"
           /\ errors = <<>>
                <=> /\ c.bot_token # "YOUR_BOT_TOKEN"
                    /\ HasColon(c.bot_token)
                    /\ c.chat_id \notin {"", "YOUR_CHAT_ID"}

\* C17 witness: an enabled configuration with a token that is not the
\* placeholder and has no ':' got the format violation and no other.
C17_Witness ==
    /\ last.op = "validate_telegram_config"
    /\ last.before.telegram.enabled
    /\ last.before.telegram.bot_token = "invalid_token_no_colon"
    /\ last.before.telegram.chat_id = "123456"
    /\ Len(last.ret) = 1
    /\ last.ret[1].text = "format appears invalid (should contain ':')"

\* (multiplier / 1000) to the power i
RECURSIVE Power(_, _)
Power(multiplier, i) ==
    IF i = 0 THEN <<1, 1>> ELSE RatMul(Norm(multiplier, 1000), Power(multiplier, i - 1))

\* the sum of base * multiplier^i for i in [0, n)
RECURSIVE GeometricSum(_, _, _)
GeometricSum(base, multiplier, n) ==
    IF n <= 0 THEN <<0, 1>>
    ELSE Add(GeometricSum(base, multiplier, n - 1),
             RatMul(<<base, 1>>, Power(multiplier, n - 1)))

C16_RecommendedBalance ==
    (last.op = "get_recommended_balance")
    => LET c == last.before
           f == IF last.path = <<>> THEN 2000 ELSE last.path[1]
       IN  /\ last.ret = RatMul(calculate_max_loss(c), Norm(f, 1000))
           /\ c.martingale.enabled
                => last.ret = RatMul(GeometricSum(c.trading.base_stake, c.martingale.multiplier,
                                                  c.martingale.max_steps),
                                     Norm(f, 1000))
           /\ (last.path = <<>> /\ c.martingale.enabled /\ c.trading.base_stake = 1000
                 /\ c.martingale.multiplier = 2000 /\ c.martingale.max_steps = 5)
                => last.ret = <<62000, 1>>
           /\ (last.path = <<>> /\ ~c.martingale.enabled)
                => last.ret = Norm(2 * c.trading.base_stake, 1)

\* C16 witness: the recommended balance was computed with a factor of 1.5
\* for an enabled martingale of 5 steps from 1.00 at multiplier 2: 46.5.
C16_Witness ==
    /\ last.op = "get_recommended_balance"
    /\ last.path = <<1500>>
    /\ last.before.martingale.enabled
    /\ last.before.trading.base_stake = 1000
    /\ last.before.martingale.multiplier = 2000
    /\ last.before.martingale.max_steps = 5
    /\ last.ret = <<46500, 1>>

SendOps == {"send_message"} \cup DOMAIN AlertMessage

\* C18: while the notifier is disabled, send_message and every send_* method
\* return {ok: false, error: "Telegram not configured"} without raising, and
\* no HTTP request has been made through it, however many calls were made.
C18_DisabledSendsNothing ==
    ~notifier.enabled
    => /\ posts = <<>>
       /\ last.op \in SendOps
            => /\ last.raised = "none"
               /\ last.ret = [type |-> "object",
                              obj |-> [ok |-> FALSE, error |-> "Telegram not configured"]]

\* C18 witness: a notifier with a token from the environment and the
\* placeholder chat id was asked twice to send, the second time through
\* send_win_alert.
C18_Witness ==
    /\ ~notifier.enabled
    /\ notifier.bot_token = "123:ABC"
    /\ notifier.chat_id = "YOUR_CHAT_ID"
    /\ last.op = "send_win_alert"
    /\ last.n = 2
    /\ posts = <<>>
    /\ last.ret.obj.error = "Telegram not configured"

\* the credential the constructor is said to choose: the argument when it
\* counts as given, else the environment variable when set, else the placeholder
Chosen(given, arg, variable, placeholder) ==
    IF given THEN arg ELSE IF env[variable] # None THEN env[variable] ELSE placeholder

\* enabled exactly when neither resolved credential is its placeholder
EnabledRule ==
    notifier.enabled <=> (notifier.bot_token # "YOUR_BOT_TOKEN" /\ notifier.chat_id # "YOUR_CHAT_ID")

\* C19 as stated: each credential is the explicit argument when one is given
\* (any argument other than None), else the environment variable, else the
\* placeholder; enabled iff neither resolved credential is its placeholder.
C19_Original ==
    (last.op = "TelegramNotifier")
    => /\ notifier.bot_token = Chosen(last.path[1] # None, last.path[1],
                                      "TELEGRAM_BOT_TOKEN", "YOUR_BOT_TOKEN")
       /\ notifier.chat_id = Chosen(last.path[2] # None, last.path[2],
                                    "TELEGRAM_CHAT_ID", "YOUR_CHAT_ID")
       /\ EnabledRule

\* C19 (amended): each credential is the explicit argument when a non-empty
\* one is given (None and the empty string count as not given), else the
\* environment variable when it is set, else the placeholder; enabled iff the
\* resolved token differs from YOUR_BOT_TOKEN and the resolved chat id from
\* YOUR_CHAT_ID, so one placeholder credential alone disables the notifier.
C19_CredentialResolution ==
    /\ EnabledRule
    /\ (notifier.bot_token = "YOUR_BOT_TOKEN" \/ notifier.chat_id = "YOUR_CHAT_ID")
          => ~notifier.enabled
    /\ (last.op = "TelegramNotifier")
          => /\ notifier.bot_token = Chosen(last.path[1] \notin {None, ""}, last.path[1],
                                            "TELEGRAM_BOT_TOKEN", "YOUR_BOT_TOKEN")
             /\ notifier.chat_id = Chosen(last.path[2] \notin {None, ""}, last.path[2],
                                          "TELEGRAM_CHAT_ID", "YOUR_CHAT_ID")

\* C19 witness: constructed with an empty token argument and a chat id while
\* TELEGRAM_BOT_TOKEN is set: the token comes from the environment, the chat
\* id from the argument, and the notifier is enabled.
C19_Witness ==
    /\ last.op = "TelegramNotifier"
    /\ last.n > 0
    /\ last.path = <<"", "42">>
    /\ env.TELEGRAM_BOT_TOKEN = "123:ABC"
    /\ env.TELEGRAM_CHAT_ID = "123456"
    /\ notifier.bot_token = "123:ABC"
    /\ notifier.chat_id = "42"
    /\ notifier.enabled

\* C20: on an enabled notifier every send issues exactly one HTTP POST, and
\* whatever the request's outcome (transport error, timeout, or a body that
\* is not the expected JSON) the call returns and does not raise; a transport
\* failure is returned as {ok: false, error: ...}.
C20_OnePostNeverRaises ==
    [][ (notifier.enabled /\ last'.op \in SendOps /\ last'.n = last.n + 1)
        => /\ Len(posts') = Len(posts) + 1
           /\ last'.raised = "none"
           /\ last'.outcome.exc # "none"
                => /\ last'.ret.type = "object"
                   /\ last'.ret.obj.ok = FALSE
                   /\ "error" \in DOMAIN last'.ret.obj ]_vars

\* C21: test_connection makes one send_message call and returns true exactly
\* when the result of that send has a truthy ok field; it returns false for a
\* disabled notifier and for a failed send (it always returns a boolean).
C21_TestConnection ==
    [][ (last'.op = "test_connection" /\ last'.n = last.n + 1)
        => /\ last'.raised = "none"
           /\ IF notifier.enabled
              THEN /\ last'.outcome.sends = 1
                   /\ Len(posts') = Len(posts) + 1
                   /\ last'.ret = TRUE
                        <=> /\ last'.outcome.result.type = "object"
                            /\ "ok" \in DOMAIN last'.outcome.result.obj
                            /\ last'.outcome.result.obj.ok = TRUE
              ELSE last'.ret = FALSE /\ posts' = posts ]_vars

\* C27: the default notifier is created on the first get_notifier or
\* send_telegram_message call, is replaced by a new TelegramNotifier on every
\* call that passes a non-empty bot_token or chat_id (also when they equal
\* the ones it holds; a credential not passed is resolved again from the
\* environment or the placeholder), and is otherwise kept and returned
\* unchanged, so that a call without credentials sends with the credentials
\* of the notifier the last such call left.
C27_DefaultNotifier ==
    [][ (last'.op \in {"get_notifier", "send_telegram_message"} /\ last'.n = last.n + 1)
        => LET bot_token == last'.path[1]
               chat_id   == last'.path[2]
               passed    == bot_token \notin {None, ""} \/ chat_id \notin {None, ""}
               fromEnv(variable, placeholder) ==
                   IF env[variable] # None THEN env[variable] ELSE placeholder
           IN  /\ IF default_notifier.id = 0 \/ passed
                  THEN /\ default_notifier'.id = last'.n
                       /\ default_notifier'.id # default_notifier.id
                       /\ default_notifier'.self.bot_token =
                             IF bot_token \notin {None, ""} THEN bot_token
                             ELSE fromEnv("TELEGRAM_BOT_TOKEN", "YOUR_BOT_TOKEN")
                       /\ default_notifier'.self.chat_id =
                             IF chat_id \notin {None, ""} THEN chat_id
                             ELSE fromEnv("TELEGRAM_CHAT_ID", "YOUR_CHAT_ID")
                  ELSE default_notifier' = default_notifier
               /\ last'.op = "get_notifier" => last'.ret = default_notifier'
               /\ Len(posts') > Len(posts)
                     => /\ posts'[Len(posts')].json.chat_id = default_notifier'.self.chat_id
                        /\ posts'[Len(posts')].url[2] = default_notifier'.self.bot_token ]_vars

\* C27 witness: a third call, without credentials and after the environment
\* changed, sent with the credentials passed to the first call, through the
\* notifier that call created.
C27_Witness ==
    /\ last.n = 3
    /\ last.op = "send_telegram_message"
    /\ last.path = <<None, None>>
    /\ default_notifier.id = 1
    /\ env.TELEGRAM_CHAT_ID = "123456"
    /\ Len(posts) = 1
    /\ posts[1].json.chat_id = "42"
    /\ posts[1].url[2] = "999:XYZ"

ExportKeys ==
    { "base_stake", "duration_value", "duration_type", "symbol", "martingale_enabled",
      "martingale_multiplier", "max_martingale_steps", "take_profit", "stop_loss",
      "max_consecutive_losses", "min_balance", "telegram_enabled", "telegram_token",
      "telegram_chat_id" }

\* C22: export_for_xml returns a mapping with exactly the fourteen keys, each
\* value equal to the corresponding field of the held configuration and
\* duration_type the first character of duration_unit, and leaves the
\* configuration unchanged.
C22_ExportForXml ==
    (last.op = "export_for_xml")
    => /\ last.raised = "none"
       /\ config = last.before
       /\ DOMAIN last.ret = ExportKeys
       /\ last.ret.base_stake = config.trading.base_stake
       /\ last.ret.duration_value = config.trading.contract_duration
       /\ last.ret.duration_type \in {"t", "s", "m"}
       /\ last.ret.duration_type = "t" <=> config.trading.duration_unit \in {"ticks", "t"}
       /\ last.ret.duration_type = "s" <=> config.trading.duration_unit \in {"seconds", "s"}
       /\ last.ret.symbol = config.trading.trading_asset
       /\ last.ret.martingale_enabled = config.martingale.enabled
       /\ last.ret.martingale_multiplier = config.martingale.multiplier
       /\ last.ret.max_martingale_steps = config.martingale.max_steps
       /\ last.ret.take_profit = config.risk_management.take_profit
       /\ last.ret.stop_loss = config.risk_management.stop_loss
       /\ last.ret.max_consecutive_losses = config.risk_management.max_consecutive_losses
       /\ last.ret.min_balance = config.risk_management.min_balance_threshold
       /\ last.ret.telegram_enabled = config.telegram.enabled
       /\ last.ret.telegram_token = config.telegram.bot_token
       /\ last.ret.telegram_chat_id = config.telegram.chat_id

\* C23: whatever configuration the manager holds after loads, presets, edits
\* and saves, each of validate, apply_preset, get_summary, export_for_xml and
\* save returns a value and raises nothing.
C23_NoOperationRaises ==
    (last.op \in {"validate", "apply_preset", "get_summary", "export_for_xml", "save"})
    => last.raised = "none"

\* the configuration has at least one violation
Invalid(c) == ~validate_all(c)[1]

\* C24: validation runs only on demand.  load installs the configuration of
\* a well-formed file whether or not it has violations; apply_preset, direct
\* edits and save go through on a configuration that has violations (a save
\* fails only for want of a path or on an I/O error); only validate returns
\* violation messages.
C24_ValidationOnDemand ==
    LET before == [config |-> last.before, config_path |-> config_path]
    IN  /\ ( /\ last.op = "load"
             /\ ~Falsy(last.path)
             /\ LastFile.kind = "json"
             /\ dict_to_config(before, LastFile.doc).raised = "none" )
           => /\ last.outcome = "loaded"
              /\ config = dict_to_config(before, LastFile.doc).config
              /\ last.ret = config
        /\ last.op = "apply_preset"
           => /\ last.raised = "none"
              /\ PresetFields(config) = PresetFields(apply_preset(BotConfig, last.path))
              /\ last.ret = <<>>
        /\ last.op = "edit" => last.raised = "none" /\ last.ret = <<>>
        /\ last.op = "save"
           => /\ last.ret \in BOOLEAN
              /\ last.raised = "none"
              /\ last.outcome \in {"no_path", "open_error", "write_error", "written"}
              /\ last.outcome = "written"
                   => /\ last.ret = TRUE
                      /\ LastFile = json_dump(config_to_dict(Self, config))
        /\ last.op = "validate" => last.ret[1] = ~Invalid(config)

\* C24 witness: a configuration with base_stake -1 was loaded from a file and
\* then saved, violations and all.
C24_Witness ==
    /\ last.op = "save"
    /\ last.outcome = "written"
    /\ last.ret = TRUE
    /\ config.trading.base_stake = -1000
    /\ Invalid(config)
    /\ fs[last.path] = json_dump(config_to_dict(Self, config))

PresetFieldNames ==
    { "Base stake", "Multiplier", "Max martingale steps", "Take profit", "Stop loss",
      "Max consecutive losses" }

\* C26: after apply_preset with any of the four levels, on any starting
\* configuration, the validators report nothing about base_stake, multiplier,
\* max_steps, take_profit, stop_loss or max_consecutive_losses (the
\* martingale fields are examined as with martingale enabled), and the
\* configuration create_config_from_preset returns passes validate_all with
\* an empty list.
C26_PresetsAreValid ==
    /\ (last.op \in {"apply_preset", "create_config_from_preset"})
          => /\ ~Names(validate_trading_config(config.trading), PresetFieldNames)
             /\ ~Names(validate_martingale_config([config.martingale EXCEPT !.enabled = TRUE]),
                       PresetFieldNames)
             /\ ~Names(validate_risk_config(config.risk_management), PresetFieldNames)
             /\ ~Names(validate_all(config)[2], PresetFieldNames)
    /\ (last.op = "create_config_from_preset")
          => /\ last.ret = config
             /\ validate_all(config) = <<TRUE, <<>>>>
    /\ (last.op = "validate_all" /\ last.n > 1 /\ last.before = create_config_from_preset(last.before.risk_level))
          => last.ret = <<TRUE, <<>>>>

\* C26 witness: a preset was applied to a configuration with a negative
\* stake, a multiplier of 0.5 and -1 steps, all of which the validators
\* reject, and the result has none of these violations.
C26_Witness ==
    /\ last.op = "apply_preset"
    /\ last.before.trading.base_stake = -1000
    /\ last.before.martingale.enabled
    /\ last.before.martingale.multiplier = 500
    /\ last.before.martingale.max_steps = -1
    /\ Len(validate_all(last.before)[2]) >= 3
    /\ validate_all(config) = <<TRUE, <<>>>>

Objects == 1..Len(heap)

\* C25: apply_preset changes the object the manager holds in place and
\* returns that same object: the manager holds the same object afterwards,
\* no object is created and no other object changes, and a reference taken
\* earlier from load() or manager.config sees the preset's six values and
\* risk_level.  The held object is replaced only by a load that succeeds,
\* which makes self.config a new object and leaves the old one, and a
\* reference to it, as they were.
C25_PresetAppliedInPlace ==
    [][ /\ (last'.op = "apply_preset")
           => /\ last'.ret = held /\ held' = held
              /\ Len(heap') = Len(heap)
              /\ \A i \in Objects : i # held => heap'[i] = heap[i]
              /\ config' = heap'[held]
              /\ (ref = held)
                 => /\ heap'[ref'].risk_level = last'.path
                    /\ PresetFields(heap'[ref']) = PresetFields(get_preset(last'.path))
                    /\ heap'[ref'] = apply_preset(heap[ref], last'.path)
        /\ (held' # held)
           => /\ last'.op = "load" /\ last'.outcome = "loaded"
              /\ held' \notin Objects
        /\ (last'.op = "load")
           => /\ \A i \in Objects : heap'[i] = heap[i]
              /\ (last'.outcome = "loaded") => held' = Len(heap) + 1 /\ last'.ret = held'
              /\ (last'.outcome # "loaded") => heap' = heap /\ last'.ret = held
      ]_vars

\* C25 witness: a load succeeded and its result was kept by the caller, then
\* aggressive was applied, and the kept reference shows aggressive's values
\* while the object held before the load still has the defaults.
C25_Witness ==
    /\ last.op = "apply_preset" /\ last.path = "AGGRESSIVE"
    /\ Len(heap) = 2 /\ held = 2 /\ ref = held
    /\ last.before.risk_level = "MODERATE"
    /\ last.before.trading.base_stake = 7000
    /\ heap[ref].risk_level = "AGGRESSIVE"
    /\ PresetFields(heap[ref]) = <<2000, 2500, 7, 100000, 50000, 7>>
    /\ heap[1] = BotConfig

====
